---- MODULE Spec2Model ----
(***************************************************************************)
(* A model of homework.py: the fitness tracker's session classes           *)
(* (Training, Running, SportsWalking, Swimming), the report InfoMessage,   *)
(* the dispatch function read_package, main and the driver loop.           *)
(*                                                                         *)
(* Numbers.  The fields of a session are the integers of the data list     *)
(* (data: list[int]).  The results of the methods are Python floats; they  *)
(* are modelled by exact non-negative rationals [n, d] over arbitrary      *)
(* precision naturals, so a result of the model is the real number the     *)
(* float approximates.  Naturals are little-endian sequences of limbs      *)
(* base 10^4, because TLC's integers are 32 bits wide.  The '.3f'          *)
(* conversion is modelled as rounding to the nearest thousandth (ties to   *)
(* even) followed by the decimal rendering, character by character.        *)
(*                                                                         *)
(* Text.  The Russian string literals of the source are transliterated to  *)
(* ASCII, one literal of the model for one literal of the source.          *)
(***************************************************************************)
EXTENDS Integers, Sequences, FiniteSets, TLC

---------------------------------------------------------------------------
(* Arbitrary precision naturals.                                           *)

Base == 10^4

RECURSIVE BigOfNat(_)
BigOfNat(k) == IF k = 0 THEN <<>> ELSE <<k % Base>> \o BigOfNat(k \div Base)

RECURSIVE BigAddC(_, _, _)
BigAddC(a, b, c) ==
    IF a = <<>> /\ b = <<>>
    THEN IF c = 0 THEN <<>> ELSE <<c>>
    ELSE LET x == (IF a = <<>> THEN 0 ELSE Head(a))
                  + (IF b = <<>> THEN 0 ELSE Head(b)) + c
         IN  <<x % Base>> \o BigAddC(IF a = <<>> THEN a ELSE Tail(a),
                                     IF b = <<>> THEN b ELSE Tail(b),
                                     x \div Base)

BigAdd(a, b) == BigAddC(a, b, 0)

RECURSIVE BigMulLimbC(_, _, _)
BigMulLimbC(a, k, c) ==
    IF a = <<>>
    THEN BigOfNat(c)
    ELSE LET x == Head(a) * k + c
         IN  <<x % Base>> \o BigMulLimbC(Tail(a), k, x \div Base)

BigMulLimb(a, k) == IF k = 0 THEN <<>> ELSE BigMulLimbC(a, k, 0)

BigShift(a) == IF a = <<>> THEN a ELSE <<0>> \o a

RECURSIVE BigMul(_, _)
BigMul(a, b) ==
    IF a = <<>> \/ b = <<>>
    THEN <<>>
    ELSE BigAdd(BigMulLimb(a, Head(b)), BigShift(BigMul(a, Tail(b))))

RECURSIVE BigLessFrom(_, _, _)
BigLessFrom(a, b, i) ==
    IF i = 0 THEN FALSE
    ELSE IF a[i] # b[i] THEN a[i] < b[i]
    ELSE BigLessFrom(a, b, i - 1)

BigLess(a, b) ==
    IF Len(a) # Len(b) THEN Len(a) < Len(b) ELSE BigLessFrom(a, b, Len(a))

RECURSIVE BigTrim(_)
BigTrim(a) ==
    IF a # <<>> /\ a[Len(a)] = 0 THEN BigTrim(SubSeq(a, 1, Len(a) - 1)) ELSE a

RECURSIVE BigSubB(_, _, _)
BigSubB(a, b, c) ==
    IF a = <<>> THEN <<>>
    ELSE LET x == Head(a) - (IF b = <<>> THEN 0 ELSE Head(b)) - c
         IN  <<x % Base>> \o BigSubB(Tail(a), IF b = <<>> THEN b ELSE Tail(b),
                                     IF x < 0 THEN 1 ELSE 0)

(* a - b, for b <= a. *)
BigSub(a, b) == BigTrim(BigSubB(a, b, 0))

(* x divided by d > 0: [q, r] with x = q * d + r and r < d, the quotient q *)
(* an integer.  Binary long division: by 2 * d first, then one more bit.   *)
RECURSIVE BigDivMod(_, _)
BigDivMod(x, d) ==
    IF BigLess(x, d) THEN [q |-> 0, r |-> x]
    ELSE LET h == BigDivMod(x, BigAdd(d, d))
         IN  IF BigLess(h.r, d)
             THEN [q |-> 2 * h.q, r |-> h.r]
             ELSE [q |-> 2 * h.q + 1, r |-> BigSub(h.r, d)]

---------------------------------------------------------------------------
(* Non-negative rationals: the values of the float expressions.            *)

Rat(p, q) == [n |-> BigOfNat(p), d |-> BigOfNat(q)]
RatOfInt(k) == Rat(k, 1)
RatMul(x, y) == [n |-> BigMul(x.n, y.n), d |-> BigMul(x.d, y.d)]
RatDiv(x, y) == [n |-> BigMul(x.n, y.d), d |-> BigMul(x.d, y.n)]
RatAdd(x, y) == [n |-> BigAdd(BigMul(x.n, y.d), BigMul(y.n, x.d)),
                 d |-> BigMul(x.d, y.d)]
RatEq(x, y) == BigMul(x.n, y.d) = BigMul(y.n, x.d)
IsRat(x) == DOMAIN x = {"n", "d"}

---------------------------------------------------------------------------
(* '{x:.3f}': the decimal rendering with exactly three fractional digits.  *)

(* The thousandths x may be rendered as: the nearest one, and both         *)
(* neighbours when x lies exactly half way between them (the float that    *)
(* stands for such an x lies on either side of the tie).                   *)
Round3(x) ==
    LET h == BigDivMod(BigMulLimb(x.n, 1000), x.d)
        twice == BigAdd(h.r, h.r)
    IN  IF BigLess(x.d, twice) THEN {h.q + 1}
        ELSE IF x.d = twice THEN {h.q, h.q + 1}
        ELSE {h.q}

DigitChar == <<"0", "1", "2", "3", "4", "5", "6", "7", "8", "9">>

RECURSIVE NatStr(_)
NatStr(k) ==
    IF k < 10 THEN DigitChar[k + 1] ELSE NatStr(k \div 10) \o DigitChar[(k % 10) + 1]

Fmt3OfMilli(q) ==
    NatStr(q \div 1000) \o "." \o DigitChar[((q \div 100) % 10) + 1]
        \o DigitChar[((q \div 10) % 10) + 1] \o DigitChar[(q % 10) + 1]

Fmt3(x) == {Fmt3OfMilli(q) : q \in Round3(x)}

---------------------------------------------------------------------------
(* Python values and the outcome of a call.                                *)

Return(v) == [raised |-> FALSE, value |-> v]
Raise(e)  == [raised |-> TRUE, value |-> e]

Exception(type, args) == [exc |-> type, args |-> args]

(* The class object NotImplementedError, used as a value. *)
NotImplementedError == [class |-> "NotImplementedError"]

ZeroDivisionError == Exception("ZeroDivisionError", <<"float division by zero">>)

---------------------------------------------------------------------------
(* The session classes.                                                    *)

M_IN_KM == 1000
MIN_IN_H == 60
Running_CALORIES_MEAN_SPEED_MULTIPLIER == 18
Running_CALORIES_MEAN_SPEED_SHIFT == Rat(179, 100)
CALORIES_WEIGHT_MULTIPLIER == Rat(35, 1000)
CALORIES_SPEED_HEIGHT_MULTIPLIER == Rat(29, 1000)
KMH_IN_MSEC == Rat(278, 1000)
CM_IN_M == 100
Swimming_CALORIES_MEAN_SPEED_SHIFT == Rat(11, 10)
Swimming_CALORIES_MEAN_SPEED_MULTIPLIER == 2

(* LEN_STEP without the override of Swimming. *)
LEN_STEP_of_base(cls) == Rat(65, 100)

(* The class attribute LEN_STEP as an instance of class cls sees it. *)
LEN_STEP(cls) == IF cls = "Swimming" THEN Rat(138, 100) ELSE Rat(65, 100)

(* Fields with the two fields of Swimming declared in the other order. *)
Fields_swapped(cls) ==
    <<"action", "duration", "weight">>
        \o (CASE cls = "SportsWalking" -> <<"height">>
              [] cls = "Swimming" -> <<"count_pool", "length_pool">>
              [] OTHER -> <<>>)

(* The dataclass fields in the order of the generated __init__: the base   *)
(* class's fields first, then the subclass's own.                          *)
Fields(cls) ==
    <<"action", "duration", "weight">>
        \o (CASE cls = "SportsWalking" -> <<"height">>
              [] cls = "Swimming" -> <<"length_pool", "count_pool">>
              [] OTHER -> <<>>)

NoTraining == [cls |-> "None"]

(* A constructor that binds the fields it has values for and drops the    *)
(* values beyond the last field.                                           *)
Construct_lenient(cls, data) ==
    LET fs == Fields(cls)
    IN  IF Len(data) < Len(fs)
        THEN Raise(Exception("TypeError", <<cls, Len(fs), Len(data)>>))
        ELSE Return([f \in {"cls"} \cup {fs[i] : i \in 1..Len(fs)} |->
                        IF f = "cls" THEN cls
                        ELSE data[CHOOSE i \in 1..Len(fs) : fs[i] = f]])

(* The call cls(data...): the generated __init__ binds the positional     *)
(* arguments to the fields in order; any other count raises TypeError      *)
(* (its message is kept as the class, the count taken and the count        *)
(* given).                                                                 *)
Construct(cls, data) ==
    LET fs == Fields(cls)
    IN  IF Len(data) # Len(fs)
        THEN Raise(Exception("TypeError", <<cls, Len(fs), Len(data)>>))
        ELSE Return([f \in {"cls"} \cup {fs[i] : i \in 1..Len(fs)} |->
                        IF f = "cls" THEN cls
                        ELSE data[CHOOSE i \in 1..Len(fs) : fs[i] = f]])

get_distance(self) ==
    Return(RatDiv(RatMul(RatOfInt(self.action), LEN_STEP(self.cls)),
                  RatOfInt(M_IN_KM)))

Training_get_mean_speed(self) ==
    IF self.duration = 0
    THEN Raise(ZeroDivisionError)
    ELSE Return(RatDiv(get_distance(self).value, RatOfInt(self.duration)))

(* Swimming without its override of get_mean_speed. *)
Swimming_get_mean_speed_inherited(self) == Training_get_mean_speed(self)

Swimming_get_mean_speed(self) ==
    IF self.duration = 0
    THEN Raise(ZeroDivisionError)
    ELSE Return(RatDiv(RatDiv(RatOfInt(self.length_pool * self.count_pool),
                              RatOfInt(M_IN_KM)),
                       RatOfInt(self.duration)))

get_mean_speed(self) ==
    IF self.cls = "Swimming"
    THEN Swimming_get_mean_speed(self)
    ELSE Training_get_mean_speed(self)

Training_get_spent_calories(self) == Return(NotImplementedError)

Running_get_spent_calories(self) ==
    LET speed == get_mean_speed(self)
    IN  IF speed.raised THEN speed
        ELSE Return(
            RatMul(RatDiv(RatMul(RatAdd(RatMul(RatOfInt(Running_CALORIES_MEAN_SPEED_MULTIPLIER),
                                               speed.value),
                                        Running_CALORIES_MEAN_SPEED_SHIFT),
                                 RatOfInt(self.weight)),
                          RatOfInt(M_IN_KM)),
                   RatOfInt(self.duration * MIN_IN_H)))

SportsWalking_get_spent_calories(self) ==
    LET speed == get_mean_speed(self)
    IN  IF speed.raised THEN speed
        ELSE IF self.height = 0 THEN Raise(ZeroDivisionError)
        ELSE LET ms == RatMul(speed.value, KMH_IN_MSEC)
             IN  Return(
                 RatMul(RatAdd(RatMul(CALORIES_WEIGHT_MULTIPLIER, RatOfInt(self.weight)),
                               RatMul(RatMul(RatDiv(RatMul(ms, ms),
                                                    RatDiv(RatOfInt(self.height),
                                                           RatOfInt(CM_IN_M))),
                                             CALORIES_SPEED_HEIGHT_MULTIPLIER),
                                      RatOfInt(self.weight))),
                        RatOfInt(self.duration * MIN_IN_H)))

Swimming_get_spent_calories(self) ==
    LET speed == get_mean_speed(self)
    IN  IF speed.raised THEN speed
        ELSE Return(
            RatMul(RatMul(RatMul(RatAdd(speed.value, Swimming_CALORIES_MEAN_SPEED_SHIFT),
                                 RatOfInt(Swimming_CALORIES_MEAN_SPEED_MULTIPLIER)),
                          RatOfInt(self.weight)),
                   RatOfInt(self.duration)))

get_spent_calories(self) ==
    CASE self.cls = "Running" -> Running_get_spent_calories(self)
      [] self.cls = "SportsWalking" -> SportsWalking_get_spent_calories(self)
      [] self.cls = "Swimming" -> Swimming_get_spent_calories(self)
      [] OTHER -> Training_get_spent_calories(self)

InfoMessage(training_type, duration, distance, speed, calories) ==
    [training_type |-> training_type, duration |-> duration,
     distance |-> distance, speed |-> speed, calories |-> calories]

show_training_info(self) ==
    LET distance == get_distance(self)
        speed    == get_mean_speed(self)
        calories == get_spent_calories(self)
    IN  IF speed.raised THEN speed
        ELSE IF calories.raised THEN calories
        ELSE Return(InfoMessage(self.cls, self.duration, distance.value,
                                speed.value, calories.value))

(* InfoMessage.get_message: MESSAGE formatted with the fields.  A calories  *)
(* field that is no number (the class NotImplementedError) has no 'f'      *)
(* format: TypeError.  The set of the outcomes the call may have.          *)
get_message(self) ==
    IF ~IsRat(self.calories)
    THEN {Raise(Exception("TypeError",
                          <<"unsupported format string passed to type.__format__">>))}
    ELSE {Return("Tip trenirovki: " \o self.training_type \o "; "
                 \o "Dlitel'nost': " \o duration \o " ch.; "
                 \o "Distantsiya: " \o distance \o " km; "
                 \o "Sr. skorost': " \o speed \o " km/ch; "
                 \o "Potracheno kkal: " \o calories \o ".") :
             duration \in Fmt3(RatOfInt(self.duration)),
             distance \in Fmt3(self.distance),
             speed \in Fmt3(self.speed),
             calories \in Fmt3(self.calories)}

---------------------------------------------------------------------------
(* read_package and main.                                                  *)

(* The dict with a code that selects the base class. *)
workout_type_class_with_base ==
    << <<"SWM", "Swimming">>, <<"RUN", "Training">>, <<"WLK", "SportsWalking">> >>

(* The dict of read_package, in insertion order. *)
workout_type_class ==
    << <<"SWM", "Swimming">>, <<"RUN", "Running">>, <<"WLK", "SportsWalking">> >>

(* The keys but the last one. *)
Keys_but_last(dict) == [i \in 1..(Len(dict) - 1) |-> dict[i][1]]

Keys(dict) == [i \in 1..Len(dict) |-> dict[i][1]]
HasKey(dict, k) == \E i \in 1..Len(dict) : dict[i][1] = k
Lookup(dict, k) == dict[CHOOSE i \in 1..Len(dict) : dict[i][1] = k][2]

UnknownWorkoutText ==
    "Takuyu trenirovku my ne podgotovili.Vot spisok dostupnykh trenirovok: "

(* read_package with the rejected code added to the error. *)
read_package_naming_code(workout_type, data) ==
    IF HasKey(workout_type_class, workout_type)
    THEN Construct(Lookup(workout_type_class, workout_type), data)
    ELSE Raise(Exception("ValueError",
                         <<UnknownWorkoutText>> \o Keys(workout_type_class)
                             \o <<workout_type>>))

read_package(workout_type, data) ==
    IF HasKey(workout_type_class, workout_type)
    THEN Construct(Lookup(workout_type_class, workout_type), data)
    ELSE Raise(Exception("ValueError",
                         <<UnknownWorkoutText>> \o Keys(workout_type_class)))

(* main(training): the report it builds and the line it prints, or what   *)
(* it raises; the set of the outcomes the call may have.                   *)
main(training) ==
    LET info == show_training_info(training)
    IN  IF info.raised
        THEN {[info |-> info, line |-> info]}
        ELSE {[info |-> info, line |-> line] : line \in get_message(info.value)}

---------------------------------------------------------------------------
(* State.                                                                  *)

VARIABLES
    packages,   \* the driver's list of (workout_type, data) pairs
    idx,        \* the position of the driver's for loop in packages
    pc,         \* "loop", "main", "done", "aborted" (the driver); "api" (a caller)
    training,   \* the session in hand: the driver's global, a caller's object
    info,       \* the last InfoMessage built
    stdout,     \* the lines printed
    error,      \* the exception that ended the driver
    call,       \* the last call a caller made
    ret,        \* its outcome
    first,      \* method name -> the outcome of its first call on the session
    repeated,   \* whether the last call was of a method called before
    origin      \* the call that constructed a caller's session

vars == <<packages, idx, pc, training, info, stdout, error, call, ret, first, repeated,
          origin>>

None == [class |-> "NoneType"]
NoInfo == InfoMessage("None", 0, None, None, None)
NoError == Exception("None", <<>>)
NoCall == [op |-> "None", args |-> <<>>]

---------------------------------------------------------------------------
(* The driver: the block under __name__ == '__main__'.                     *)

MaxPackages == 3

(* The list the source hard-codes. *)
Packages ==
    << <<"SWM", <<720, 1, 80, 25, 40>> >>,
       <<"RUN", <<15000, 1, 75>> >>,
       <<"WLK", <<9000, 1, 75, 180>> >> >>

(* The samples a list is made of: those of the source, and samples that    *)
(* fail (an unknown code, a missing field, a zero duration).               *)
PackagePool ==
    {Packages[i] : i \in 1..Len(Packages)}
        \cup { <<"BIKE", <<15000, 1, 75>> >>,
               <<"RUN", <<15000, 1>> >>,
               <<"WLK", <<9000, 0, 75, 180>> >> }

PackageLists == UNION {[1..k -> PackagePool] : k \in 0..MaxPackages}

DriverInit ==
    /\ packages \in PackageLists
    /\ idx = 1
    /\ pc = "loop"
    /\ training = NoTraining
    /\ info = NoInfo
    /\ stdout = <<>>
    /\ error = NoError
    /\ call = NoCall
    /\ ret = Return(None)
    /\ first = <<>>
    /\ repeated = FALSE
    /\ origin = NoCall

(* A driver that goes on to the next pair when read_package raises. *)
Dispatch_isolating ==
    /\ pc = "loop"
    /\ idx <= Len(packages)
    /\ LET o == read_package(packages[idx][1], packages[idx][2])
       IN  IF o.raised
           THEN /\ idx' = idx + 1
                /\ UNCHANGED <<pc, training, error>>
           ELSE /\ pc' = "main"
                /\ training' = o.value
                /\ UNCHANGED <<idx, error>>
    /\ UNCHANGED <<packages, info, stdout, call, ret, first, repeated, origin>>

(* training = read_package(workout_type, data) *)
Dispatch ==
    /\ pc = "loop"
    /\ idx <= Len(packages)
    /\ LET o == read_package(packages[idx][1], packages[idx][2])
       IN  IF o.raised
           THEN /\ pc' = "aborted"
                /\ error' = o.value
                /\ UNCHANGED <<idx, training>>
           ELSE /\ pc' = "main"
                /\ training' = o.value
                /\ UNCHANGED <<idx, error>>
    /\ UNCHANGED <<packages, info, stdout, call, ret, first, repeated, origin>>

(* main(training), and the step of the for loop to the next pair. *)
Main ==
    /\ pc = "main"
    /\ \E o \in main(training) :
          /\ info' = IF o.info.raised THEN info ELSE o.info.value
          /\ IF o.line.raised
             THEN /\ pc' = "aborted"
                  /\ error' = o.line.value
                  /\ UNCHANGED <<stdout, idx>>
             ELSE /\ pc' = "loop"
                  /\ stdout' = Append(stdout, o.line.value)
                  /\ idx' = idx + 1
                  /\ UNCHANGED error
    /\ UNCHANGED <<packages, training, call, ret, first, repeated, origin>>

(* The list is exhausted: the program ends with exit code 0. *)
Exit ==
    /\ pc = "loop"
    /\ idx > Len(packages)
    /\ pc' = "done"
    /\ UNCHANGED <<packages, idx, training, info, stdout, error, call, ret, first, repeated,
                   origin>>

Next == Dispatch \/ Main \/ Exit

Spec == DriverInit /\ [][Next]_vars

---------------------------------------------------------------------------
(* A caller of the module: its first call is read_package or Training(...), *)
(* and on the session it got it calls the methods in any order, any number *)
(* of times.                                                               *)

MaxVal == 1

Values == 0..MaxVal

WorkoutTypes == {"SWM", "RUN", "WLK", "BIKE", "swm"}

(* From one field fewer than the shortest constructor takes to one more    *)
(* than the longest takes.                                                 *)
DataLens == (Len(Fields("Training")) - 1) .. (Len(Fields("Swimming")) + 1)

DataSet ==
    UNION {[1..k -> Values] : k \in DataLens}
        \cup {Packages[i][2] : i \in 1..Len(Packages)}

Methods == {"get_distance", "get_mean_speed", "get_spent_calories", "show_training_info"}

Method(self, op) ==
    CASE op = "get_distance" -> get_distance(self)
      [] op = "get_mean_speed" -> get_mean_speed(self)
      [] op = "get_spent_calories" -> get_spent_calories(self)
      [] op = "show_training_info" -> show_training_info(self)

(* A get_distance that counts its calls in the field action. *)
Invoke_counting(self, op) ==
    [self |-> IF op = "get_distance" THEN [self EXCEPT !.action = @ + 1] ELSE self,
     outcome |-> Method(self, op)]

(* self.op(): the outcome, and self after the call.  No method assigns to  *)
(* a field.                                                                *)
Invoke(self, op) == [self |-> self, outcome |-> Method(self, op)]

CallerInit ==
    /\ packages = <<>>
    /\ idx = 0
    /\ pc = "api"
    /\ training = NoTraining
    /\ info = NoInfo
    /\ stdout = <<>>
    /\ error = NoError
    /\ call = NoCall
    /\ ret = Return(None)
    /\ first = <<>>
    /\ repeated = FALSE
    /\ origin = NoCall

Constructed(c, o) ==
    /\ call' = c
    /\ ret' = o
    /\ training' = IF o.raised THEN training ELSE o.value
    /\ origin' = IF o.raised THEN origin ELSE c
    /\ UNCHANGED <<packages, idx, pc, info, stdout, error, first, repeated>>

CallReadPackage ==
    /\ pc = "api"
    /\ call = NoCall
    /\ \E workout_type \in WorkoutTypes, data \in DataSet :
          Constructed([op |-> "read_package", args |-> <<workout_type, data>>],
                      read_package(workout_type, data))

CallTraining ==
    /\ pc = "api"
    /\ call = NoCall
    /\ \E data \in DataSet :
          Constructed([op |-> "Training", args |-> <<data>>],
                      Construct("Training", data))

CallMethod ==
    /\ pc = "api"
    /\ training # NoTraining
    /\ \E op \in Methods :
          LET r == Invoke(training, op)
          IN  /\ call' = [op |-> op, args |-> <<>>]
              /\ ret' = r.outcome
              /\ training' = r.self
              /\ first' = IF op \in DOMAIN first THEN first
                          ELSE (op :> r.outcome) @@ first
              /\ repeated' = (op \in DOMAIN first)
              /\ info' = IF op = "show_training_info" /\ ~r.outcome.raised
                         THEN r.outcome.value ELSE info
    /\ UNCHANGED <<packages, idx, pc, stdout, error, origin>>

CallGetMessage ==
    /\ pc = "api"
    /\ info # NoInfo
    /\ \E o \in get_message(info) :
          /\ call' = [op |-> "get_message", args |-> <<>>]
          /\ ret' = o
    /\ repeated' = FALSE
    /\ UNCHANGED <<packages, idx, pc, training, info, stdout, error, first, origin>>

CallerNext == CallReadPackage \/ CallTraining \/ CallMethod \/ CallGetMessage

SpecCaller == CallerInit /\ [][CallerNext]_vars

---------------------------------------------------------------------------
(* Properties.                                                             *)

ValidCodes == {"SWM", "RUN", "WLK"}

ReadPackageCalled == call.op = "read_package"
CodeGiven == call.args[1]
DataGiven == call.args[2]
ArityOfCode(code) == CASE code = "SWM" -> 5 [] code = "RUN" -> 3 [] code = "WLK" -> 4

(* C1: read_package with a valid code and data of the arity of the code's  *)
(* variant returns an instance of that variant (SWM -> Swimming, RUN ->    *)
(* Running, WLK -> SportsWalking) whose fields are the elements of data in *)
(* declaration order: action, duration, weight, then height (walking) or   *)
(* length_pool, count_pool (swimming).                                     *)
C1_ReadPackageBindsFields ==
    (/\ ReadPackageCalled
     /\ CodeGiven \in ValidCodes
     /\ Len(DataGiven) = ArityOfCode(CodeGiven))
    => /\ ~ret.raised
       /\ training = ret.value
       /\ ret.value.cls = (CASE CodeGiven = "SWM" -> "Swimming"
                             [] CodeGiven = "RUN" -> "Running"
                             [] CodeGiven = "WLK" -> "SportsWalking")
       /\ ret.value.action = DataGiven[1]
       /\ ret.value.duration = DataGiven[2]
       /\ ret.value.weight = DataGiven[3]
       /\ CodeGiven = "RUN" =>
             DOMAIN ret.value = {"cls", "action", "duration", "weight"}
       /\ CodeGiven = "WLK" =>
             /\ DOMAIN ret.value = {"cls", "action", "duration", "weight", "height"}
             /\ ret.value.height = DataGiven[4]
       /\ CodeGiven = "SWM" =>
             /\ DOMAIN ret.value = {"cls", "action", "duration", "weight",
                                    "length_pool", "count_pool"}
             /\ ret.value.length_pool = DataGiven[4]
             /\ ret.value.count_pool = DataGiven[5]

(* read_package("SWM", [720, 1, 80, 25, 40]) has returned a Swimming with  *)
(* a pool of 25 m swum 40 times.                                           *)
C1_Witness ==
    /\ ReadPackageCalled
    /\ call.args = <<"SWM", <<720, 1, 80, 25, 40>> >>
    /\ ~ret.raised
    /\ training.cls = "Swimming"
    /\ training.length_pool = 25
    /\ training.count_pool = 40

(* C2: read_package with a code that is none of SWM, RUN, WLK returns no   *)
(* session: it raises the "unsupported workout type" ValueError, whose     *)
(* message lists the three valid codes, no more and no fewer.              *)
C2_UnknownCodeListsValidCodes ==
    (ReadPackageCalled /\ CodeGiven \notin ValidCodes)
    => /\ ret.raised
       /\ training = NoTraining
       /\ ret.value.exc = "ValueError"
       /\ ret.value.args[1] = UnknownWorkoutText
       /\ Len(ret.value.args) = 4
       /\ {ret.value.args[i] : i \in 2..Len(ret.value.args)} = ValidCodes

(* read_package("BIKE", ...) has raised. *)
C2_Witness ==
    /\ ReadPackageCalled
    /\ CodeGiven = "BIKE"
    /\ ret.raised
    /\ ret.value.exc = "ValueError"

(* C3, as stated: the error raised for an unknown code carries the         *)
(* rejected code in its message.                                           *)
C3_ErrorCarriesRejectedCode ==
    (ReadPackageCalled /\ CodeGiven \notin ValidCodes)
    => /\ ret.raised
       /\ \E i \in 1..Len(ret.value.args) : ret.value.args[i] = CodeGiven

(* C3, amended: the error raised for an unknown code does not carry the    *)
(* rejected code: none of its arguments (the fixed text and the valid      *)
(* codes) is the code that was passed.                                     *)
C3_ErrorOmitsRejectedCode ==
    (ReadPackageCalled /\ CodeGiven \notin ValidCodes)
    => /\ ret.raised
       /\ \A i \in 1..Len(ret.value.args) : ret.value.args[i] # CodeGiven

(* read_package("swm", ...) has raised. *)
C3_Witness ==
    /\ ReadPackageCalled
    /\ CodeGiven = "swm"
    /\ ret.raised
    /\ ret.value.exc = "ValueError"
    /\ Len(ret.value.args) > 1

(* C4, as stated: get_spent_calories on a base Training signals failure    *)
(* and returns no value, so show_training_info on a base Training never    *)
(* returns a report with the placeholder as its calories.                  *)
C4_BaseCaloriesSignalsFailure ==
    training.cls = "Training"
    => /\ call.op = "get_spent_calories" => ret.raised
       /\ (call.op = "show_training_info" /\ ~ret.raised)
             => ret.value.calories # NotImplementedError

(* The lines main may print for a pair; none when the pair fails. *)
ReportLines(package) ==
    LET o == read_package(package[1], package[2])
    IN  IF o.raised THEN {}
        ELSE {m.line.value : m \in {x \in main(o.value) : ~x.line.raised}}

(* The lines written are the reports of the first idx - 1 pairs, in order; *)
(* an aborted run stopped at a pair that fails.                            *)
C5_PrefixPrinted ==
    /\ idx \in 1..(Len(packages) + 1)
    /\ Len(stdout) = idx - 1
    /\ \A k \in 1..Len(stdout) : stdout[k] \in ReportLines(packages[k])
    /\ pc \in {"loop", "main", "done", "aborted"}
    /\ pc = "main" => idx <= Len(packages) /\ training.cls # "None"
    /\ pc = "done" => Len(stdout) = Len(packages)
    /\ pc = "aborted" =>
          /\ idx <= Len(packages)
          /\ ReportLines(packages[idx]) = {}
          /\ error # NoError
    /\ pc # "aborted" => error = NoError

(* A step starts in a run that is not over, keeps the list, and prints at  *)
(* most one line, after the lines written, as it moves to the next pair.   *)
C5_StepInOrder ==
    /\ pc \notin {"aborted", "done"}
    /\ packages' = packages
    /\ \/ stdout' = stdout /\ idx' = idx
       \/ /\ pc = "main"
          /\ idx' = idx + 1
          /\ Len(stdout') = Len(stdout) + 1
          /\ SubSeq(stdout', 1, Len(stdout)) = stdout

(* C5: the driver handles its pairs in list order, one line per session.   *)
(* At every point the lines written are the reports of the first idx - 1   *)
(* pairs in list order; when pair idx fails the run is over with exactly   *)
(* those lines written, and nothing is dispatched or printed after that.   *)
C5_DriverInOrder == []C5_PrefixPrinted /\ [][C5_StepInOrder]_vars

(* The second of three pairs has an unknown code: one line is written and  *)
(* the run is over.                                                        *)
C5_Witness ==
    /\ pc = "aborted"
    /\ Len(packages) = 3
    /\ idx = 2
    /\ Len(stdout) = 1
    /\ error.exc = "ValueError"

(* (0.035*75 + (5.85*0.278)^2 / 1.8 * 0.029 * 75) * 60 *)
C6_WalkingCalories ==
    LET ms == RatMul(Rat(585, 100), Rat(278, 1000))
    IN  RatMul(RatAdd(RatMul(Rat(35, 1000), Rat(75, 1)),
                      RatMul(RatMul(RatDiv(RatMul(ms, ms), Rat(18, 10)),
                                    Rat(29, 1000)),
                             Rat(75, 1))),
               Rat(60, 1))

(* C6: the metrics of the three samples of the source.  Swimming (720, 1,  *)
(* 80, 25, 40): 0.994 km, 1.000 km/h, 336 kcal.  Running (15000, 1, 75):   *)
(* 9.750 km, 9.750 km/h, 797.805 kcal.  Walking (9000, 1, 75, 180): 5.850  *)
(* km, 5.850 km/h, (0.035*75 + (5.85*0.278)^2 / 1.8 * 0.029 * 75) * 60     *)
(* kcal, which is 349.252 to three decimals.                               *)
C6_SampleMetrics ==
    packages = Packages
    => /\ (pc = "loop" /\ idx = 2) =>
             /\ info.training_type = "Swimming"
             /\ RatEq(info.distance, Rat(9936, 10000))
             /\ RatEq(info.speed, Rat(1, 1))
             /\ RatEq(info.calories, Rat(336, 1))
             /\ stdout[1] = "Tip trenirovki: Swimming; Dlitel'nost': 1.000 ch.; "
                            \o "Distantsiya: 0.994 km; Sr. skorost': 1.000 km/ch; "
                            \o "Potracheno kkal: 336.000."
       /\ (pc = "loop" /\ idx = 3) =>
             /\ info.training_type = "Running"
             /\ RatEq(info.distance, Rat(9750, 1000))
             /\ RatEq(info.speed, Rat(9750, 1000))
             /\ RatEq(info.calories, Rat(797805, 1000))
             /\ stdout[2] = "Tip trenirovki: Running; Dlitel'nost': 1.000 ch.; "
                            \o "Distantsiya: 9.750 km; Sr. skorost': 9.750 km/ch; "
                            \o "Potracheno kkal: 797.805."
       /\ (pc = "loop" /\ idx = 4) =>
             /\ info.training_type = "SportsWalking"
             /\ RatEq(info.distance, Rat(5850, 1000))
             /\ RatEq(info.speed, Rat(5850, 1000))
             /\ RatEq(info.calories, C6_WalkingCalories)
             /\ stdout[3] = "Tip trenirovki: SportsWalking; Dlitel'nost': 1.000 ch.; "
                            \o "Distantsiya: 5.850 km; Sr. skorost': 5.850 km/ch; "
                            \o "Potracheno kkal: 349.252."
       /\ pc # "aborted"

(* The run over the list of the source has ended, three lines written. *)
C6_Witness ==
    /\ packages = Packages
    /\ pc = "done"
    /\ Len(stdout) = 3
    /\ info.training_type = "SportsWalking"

ConcreteClasses == {"Running", "SportsWalking", "Swimming"}

(* A call of a method leaves the session as it was and returns what the    *)
(* first call of that method returned.                                     *)
C7_CallIsPure ==
    (/\ call'.op \in Methods
     /\ training.cls \in ConcreteClasses
     /\ training.duration > 0)
    => /\ training' = training
       /\ call'.op \in DOMAIN first => ret' = first[call'.op]

(* C7: on a session of a concrete variant with duration > 0, a call of     *)
(* get_distance, get_mean_speed, get_spent_calories or show_training_info  *)
(* leaves every field of the session as it was, and a repeated call of an  *)
(* operation returns what its first call returned.                         *)
C7_MethodsArePure == [][C7_CallIsPure]_vars

(* get_spent_calories has been called again on a walking session, after   *)
(* each of the four operations was called.                                 *)
C7_Witness ==
    /\ training.cls = "SportsWalking"
    /\ training.duration > 0
    /\ repeated
    /\ call.op = "get_spent_calories"
    /\ DOMAIN first = Methods
    /\ ret = first["get_spent_calories"]

(* C8: read_package with a valid code and data of any other length than    *)
(* the arity of the code's variant raises the constructor's TypeError and  *)
(* returns no session, neither a partly bound one nor one without the      *)
(* extra fields.                                                           *)
C8_ArityMismatchRaises ==
    (/\ ReadPackageCalled
     /\ CodeGiven \in ValidCodes
     /\ Len(DataGiven) # ArityOfCode(CodeGiven))
    => /\ ret.raised
       /\ ret.value.exc = "TypeError"
       /\ training = NoTraining
       /\ origin = NoCall

(* read_package("RUN", data) with four fields has raised. *)
C8_Witness ==
    /\ ReadPackageCalled
    /\ CodeGiven = "RUN"
    /\ Len(DataGiven) = 4
    /\ ret.raised
    /\ ret.value.exc = "TypeError"

(* C9: with duration > 0, get_mean_speed of a Running or SportsWalking is  *)
(* get_distance / duration; of a Swimming it is length_pool * count_pool / *)
(* 1000 / duration, whatever action is: a swimming session that differs    *)
(* only in action has the same mean speed and calories and another         *)
(* distance.                                                               *)
C9_MeanSpeed ==
    (call.op = "get_mean_speed" /\ training.duration > 0)
    => /\ ~ret.raised
       /\ (training.cls \in {"Running", "SportsWalking"}
           /\ "get_distance" \in DOMAIN first)
             => RatEq(RatMul(ret.value, RatOfInt(training.duration)),
                      first["get_distance"].value)
       /\ training.cls = "Swimming" =>
             /\ RatEq(RatMul(ret.value, RatOfInt(1000 * training.duration)),
                      RatOfInt(training.length_pool * training.count_pool))
             /\ \A a \in {data[1] : data \in DataSet} :
                   LET other == [training EXCEPT !.action = a]
                   IN  /\ get_mean_speed(other) = ret
                       /\ get_spent_calories(other) = get_spent_calories(training)
                       /\ a # training.action =>
                             ~RatEq(get_distance(other).value,
                                    get_distance(training).value)

(* A swimming session whose mean speed times its duration is not its       *)
(* distance.                                                               *)
C9_Witness ==
    /\ training.cls = "Swimming"
    /\ training.duration > 0
    /\ call.op = "get_mean_speed"
    /\ ~ret.raised
    /\ "get_distance" \in DOMAIN first
    /\ ~RatEq(RatMul(ret.value, RatOfInt(training.duration)),
              first["get_distance"].value)

(* C10: a session read_package returned is of a variant with its own       *)
(* get_spent_calories: the calories it computes, and the calories of the   *)
(* report built from it, are a number and not the class                    *)
(* NotImplementedError.  No code selects the base Training.                *)
C10_DispatchedHaveCalories ==
    origin.op = "read_package"
    => /\ training.cls \in ConcreteClasses
       /\ (call.op = "get_spent_calories" /\ ~ret.raised) => IsRat(ret.value)
       /\ (call.op = "show_training_info" /\ ~ret.raised) =>
             /\ IsRat(ret.value.calories)
             /\ ret.value.calories # NotImplementedError
             /\ info = ret.value

(* show_training_info has returned the report of a running session that    *)
(* read_package made.                                                      *)
C10_Witness ==
    /\ origin.op = "read_package"
    /\ origin.args[1] = "RUN"
    /\ training.duration > 0
    /\ call.op = "show_training_info"
    /\ ~ret.raised
    /\ IsRat(ret.value.calories)

====
